---------------------------- MODULE Spec2Model ----------------------------
(***************************************************************************)
(* Serial image capture sketches: the EIML pixel routines of the Nano 33   *)
(* TinyML sketch (crop, RGB565 -> RGB888, header), and the loop() of each  *)
(* of the three sketches, seen from the serial transport and the camera    *)
(* driver's frame buffers.                                                 *)
(***************************************************************************)
EXTENDS Integers, Sequences, FiniteSets, TLC

VARIABLES
    \* one call of eiml_crop_center
    c_args,        \* in_width, in_height, out_width, out_height, bytes_per_pixel
    c_in,          \* in_pixels, indexed from 0
    c_out,         \* out_pixels, indexed from 0
    c_out0,        \* out_pixels as it was before the call
    c_called,      \* the call has returned
    c_ret,         \* its return value
    c_reads,       \* indexes of in_pixels the call read
    c_writes,      \* indexes of out_pixels the call wrote
    \* one call of eiml_rgb565_to_rgb888
    v_in,          \* in_pixels, 2 bytes per pixel
    v_out,         \* out_pixels, 3 bytes per pixel
    v_num,         \* num_pixels
    v_called,
    v_ret,
    \* one call of eiml_generate_header
    h_header,      \* the EimlHeader argument
    h_out,         \* out_header
    h_called,
    h_ret,
    h_writes,      \* indexes of out_header the call wrote
    char_signed,   \* whether plain char is signed in this build
    \* the running sketch
    sketch,        \* which of the three sketches is flashed
    cfg,           \* nano33: cam_width, cam_height, crop_width, crop_height
    cam_img,       \* nano33 global image buffers
    crop_img,
    rgb888_img,
    fbHeld,        \* esp32: driver frame buffers got and not yet returned
    tx,            \* what the last run of loop() wrote to Serial, in order
    outcome,       \* how the last run of loop() ended
    encCalls,      \* the encode_base64 calls of the last run of loop()
    env            \* what the camera driver and fmt2jpg answered in the last run

cropVars == <<c_args, c_in, c_out, c_out0, c_called, c_ret, c_reads, c_writes>>
convVars == <<v_in, v_out, v_num, v_called, v_ret>>
hdrVars == <<h_header, h_out, h_called, h_ret, h_writes, char_signed>>
sketchVars == <<sketch, cfg, cam_img, crop_img, rgb888_img, fbHeld, tx, outcome,
               encCalls, env>>
vars == <<cropVars, convVars, hdrVars, sketchVars>>

-----------------------------------------------------------------------------
(* Bounds of the model *)

\* largest input width/height tried by the crop calls
MaxDim == 3
\* largest bytes_per_pixel tried by the crop calls
MaxBpp == 3
\* largest num_pixels of the multi-pixel conversion calls
MaxPixels == 2
\* widths and heights 0..MaxSmall are tried by the header calls
MaxSmall == 2
\* largest JPEG length (bytes) the camera or fmt2jpg hands back
MaxLen == 7
\* largest camera width/height of the scaled-down nano33 builds
MaxCam == 2

-----------------------------------------------------------------------------
(* C integer arithmetic.  Every size and index of the calls modelled stays  *)
(* far below 2^31, so unsigned int arithmetic is exact here.                *)

Byte == 0..255

\* conversion to unsigned char keeps the low 8 bits
ToUChar(x) == x % 256

RECURSIVE BitAnd(_, _)
BitAnd(a, b) ==
    IF a = 0 \/ b = 0 THEN 0
    ELSE (a % 2) * (b % 2) + 2 * BitAnd(a \div 2, b \div 2)

RECURSIVE BitOr(_, _)
BitOr(a, b) ==
    IF a = 0 THEN b
    ELSE IF b = 0 THEN a
    ELSE (IF a % 2 = 1 \/ b % 2 = 1 THEN 1 ELSE 0) + 2 * BitOr(a \div 2, b \div 2)

Shl(a, n) == a * (2^n)
Shr(a, n) == a \div (2^n)

\* a byte buffer of n bytes, indexed from 0, byte i holding (seed + i) mod 256
Pattern(n, seed) == [i \in 0..(n - 1) |-> (seed + i) % 256]
Filled(n, v) == [i \in 0..(n - 1) |-> v]
Seeds == {0, 200}

\* reading buf[i]; an index outside the buffer reads a byte that is not the
\* buffer's (the access is recorded by the caller)
Rd(buf, i) == IF i \in DOMAIN buf THEN buf[i] ELSE 0

EIML_OK == 0
EIML_ERROR == 1
EIML_RGB888 == 1
EIML_HEADER_SIZE == 12
EIML_SOF_SIZE == 3

-----------------------------------------------------------------------------
(* eiml_crop_center *)

\* (variant that verifies the width only)
crop_too_large_widthonly(a) == a.in_width < a.out_width
\* if ((in_width < out_width) || (in_height < out_height))
crop_too_large(a) ==
    (a.in_width < a.out_width) \/ (a.in_height < a.out_height)

\* in_y_offset = bytes_per_pixel * in_width * ((in_height - out_height) / 2 + y)
in_y_offset(a, y) ==
    a.bytes_per_pixel * a.in_width * ((a.in_height - a.out_height) \div 2 + y)

\* (variant that strides the output rows by the input width)
out_y_offset_instride(a, y) == a.bytes_per_pixel * a.in_width * y
\* out_y_offset = bytes_per_pixel * out_width * y
out_y_offset(a, y) == a.bytes_per_pixel * a.out_width * y

\* (variant that rounds the column offset up)
in_x_offset_roundup(a, x) ==
    a.bytes_per_pixel * ((a.in_width - a.out_width + 1) \div 2 + x)
\* in_x_offset = bytes_per_pixel * ((in_width - out_width) / 2 + x)
in_x_offset(a, x) ==
    a.bytes_per_pixel * ((a.in_width - a.out_width) \div 2 + x)

\* out_x_offset = bytes_per_pixel * x
out_x_offset(a, x) == a.bytes_per_pixel * x

\* in_pixels[in_y_offset + in_x_offset + b]
crop_in_index(a, y, x, b) == in_y_offset(a, y) + in_x_offset(a, x) + b
\* out_pixels[out_y_offset + out_x_offset + b]
crop_out_index(a, y, x, b) == out_y_offset(a, y) + out_x_offset(a, x) + b

\* out_pixels[wi] = in_pixels[ri];
CopyByte(m, inp, ri, wi) ==
    [out    |-> IF wi \in DOMAIN m.out
                THEN [m.out EXCEPT ![wi] = Rd(inp, ri)] ELSE m.out,
     reads  |-> m.reads \cup {ri},
     writes |-> m.writes \cup {wi}]

\* The loops below carry the memory m from one round to the next.  Each round
\* looks at its result (Settled) before the next round starts, so that the
\* result is computed round by round, in the order of the code.
Settled(m) == m.writes \subseteq m.writes

\* for (b = 0; b < bytes_per_pixel; b++)
RECURSIVE CropBytes(_, _, _, _, _, _)
CropBytes(m, inp, a, y, x, b) ==
    IF b >= a.bytes_per_pixel THEN m
    ELSE LET m1 == CopyByte(m, inp, crop_in_index(a, y, x, b),
                            crop_out_index(a, y, x, b))
         IN  IF Settled(m1) THEN CropBytes(m1, inp, a, y, x, b + 1) ELSE m1

\* for (x = 0; x < out_width; x++)
RECURSIVE CropRow(_, _, _, _, _)
CropRow(m, inp, a, y, x) ==
    IF x >= a.out_width THEN m
    ELSE LET m1 == CropBytes(m, inp, a, y, x, 0)
         IN  IF Settled(m1) THEN CropRow(m1, inp, a, y, x + 1) ELSE m1

\* for (y = 0; y < out_height; y++)
RECURSIVE CropRows(_, _, _, _)
CropRows(m, inp, a, y) ==
    IF y >= a.out_height THEN m
    ELSE LET m1 == CropRow(m, inp, a, y, 0)
         IN  IF Settled(m1) THEN CropRows(m1, inp, a, y + 1) ELSE m1

eiml_crop_center(inp, out, a) ==
    IF crop_too_large(a)
    THEN [ret |-> EIML_ERROR, out |-> out, reads |-> {}, writes |-> {}]
    ELSE LET m == CropRows([out |-> out, reads |-> {}, writes |-> {}], inp, a, 0)
         IN  [ret |-> EIML_OK, out |-> m.out, reads |-> m.reads, writes |-> m.writes]

-----------------------------------------------------------------------------
(* eiml_rgb565_to_rgb888 *)

\* r = in_pixels[2 * i] & 0xF8;
rgb565_red(hi, lo) == ToUChar(BitAnd(hi, 248))

\* (variant that leaves out the 0xE0 mask)
rgb565_green_nomask(hi, lo) == ToUChar(BitOr(Shl(hi, 5), Shr(lo, 3)))
\* g = (in_pixels[2 * i] << 5) | ((in_pixels[(2 * i) + 1] & 0xE0) >> 3);
rgb565_green(hi, lo) == ToUChar(BitOr(Shl(hi, 5), Shr(BitAnd(lo, 224), 3)))

\* b = in_pixels[(2 * i) + 1] << 3;
rgb565_blue(hi, lo) == ToUChar(Shl(lo, 3))

\* in_pixels[(2 * i) + k], out_pixels[(3 * i) + k]
conv_in_index(i, k) == (2 * i) + k
conv_out_index(i, k) == (3 * i) + k

ConvPixel(out, inp, i) ==
    LET hi == Rd(inp, conv_in_index(i, 0))
        lo == Rd(inp, conv_in_index(i, 1))
    IN  [j \in DOMAIN out |->
            IF j = conv_out_index(i, 0) THEN rgb565_red(hi, lo)
            ELSE IF j = conv_out_index(i, 1) THEN rgb565_green(hi, lo)
            ELSE IF j = conv_out_index(i, 2) THEN rgb565_blue(hi, lo)
            ELSE out[j]]

\* for (i = 0; i < num_pixels; i++)
RECURSIVE ConvPixels(_, _, _, _)
ConvPixels(out, inp, n, i) ==
    IF i >= n THEN out
    ELSE ConvPixels(ConvPixel(out, inp, i), inp, n, i + 1)

eiml_rgb565_to_rgb888(inp, out, num_pixels) ==
    [ret |-> EIML_OK, out |-> ConvPixels(out, inp, num_pixels, 0)]

-----------------------------------------------------------------------------
(* eiml_generate_header *)

\* static const char EIML_SOF[] = {0xFF, 0xA0, 0xFF}: the values as plain char
CharOf(v) == IF char_signed /\ v >= 128 THEN v - 256 ELSE v
EIML_SOF == <<CharOf(255), CharOf(160), CharOf(255)>>

\* (variant that stores the most significant byte first)
header_dim_byte_bigendian(d, i) == BitAnd(Shr(d, (3 - i) * 8), 255)
\* (header.width >> (i * 8)) & 0xFF
header_dim_byte(d, i) == BitAnd(Shr(d, i * 8), 255)

eiml_generate_header(header, out) ==
    [ret |-> EIML_OK,
     out |-> [j \in DOMAIN out |->
                IF j < EIML_SOF_SIZE THEN ToUChar(EIML_SOF[j + 1])
                ELSE IF j = EIML_SOF_SIZE THEN header.format
                ELSE IF j < EIML_SOF_SIZE + 5
                     THEN header_dim_byte(header.width, j - (EIML_SOF_SIZE + 1))
                ELSE IF j < EIML_SOF_SIZE + 9
                     THEN header_dim_byte(header.height, j - (EIML_SOF_SIZE + 5))
                ELSE out[j]],
     writes |-> {i : i \in 0..(EIML_SOF_SIZE - 1)}
                \cup {EIML_SOF_SIZE}
                \cup {EIML_SOF_SIZE + 1 + i : i \in 0..3}
                \cup {EIML_SOF_SIZE + 5 + i : i \in 0..3}]

-----------------------------------------------------------------------------
(* Serial and encode_base64, as the sketches use them *)

\* one Serial.print / Serial.println call: the text written, and whether the
\* line terminator follows it
Diag(msg) == [kind |-> "diag", msg |-> msg, text |-> <<>>, nl |-> TRUE]
B64(text, nl) == [kind |-> "b64", msg |-> "", text |-> text, nl |-> nl]
\* the C string found at an address that is not the encoded buffer's
Garbage(nl) == [kind |-> "garbage", msg |-> "", text |-> <<>>, nl |-> nl]

\* a buffer indexed from 0, as the sequence of its bytes
AsSeq(buf) == [i \in 1..Cardinality(DOMAIN buf) |-> buf[i - 1]]

\* Base64 text of a byte sequence: symbols 0..63, and 64 for the padding '='
RECURSIVE Base64Text(_)
Base64Text(s) ==
    IF Len(s) = 0 THEN <<>>
    ELSE IF Len(s) = 1
         THEN <<s[1] \div 4, (s[1] % 4) * 16, 64, 64>>
    ELSE IF Len(s) = 2
         THEN <<s[1] \div 4, (s[1] % 4) * 16 + (s[2] \div 16), (s[2] % 16) * 4, 64>>
    ELSE <<s[1] \div 4, (s[1] % 4) * 16 + (s[2] \div 16),
           (s[2] % 16) * 4 + (s[3] \div 64), s[3] % 64>>
         \o Base64Text(SubSeq(s, 4, Len(s)))

\* encode_base64(input, input_length, output): the text, and the bytes stored
\* into output (the text and its terminating null)
encode_base64(input) ==
    [text |-> Base64Text(input), stored |-> Len(Base64Text(input)) + 1]

\* the record kept of one encode_base64 call: the output buffer, its size in
\* bytes, the input length and the bytes the encoder stored
EncCall(buf, cap, n, e) == [buf |-> buf, cap |-> cap, n |-> n, stored |-> e.stored]

\* what one run of loop() leaves behind
Run(held, w, how, enc) == [held |-> held, tx |-> w, outcome |-> how, enc |-> enc]

-----------------------------------------------------------------------------
(* esp32_cam_image_capture_02: loop() *)

\* config.fb_count = 2
fb_count == 2

\* if(!fb) { Serial.println("Camera capture failed"); return; }
capture_02_failed(held) ==
    Run(held, <<Diag("Camera capture failed")>>, "acq_fail", <<>>)

\* enc_len = (fb->len + 2) / 3 * 4
capture_02_enc_len(len) == ((len + 2) \div 3) * 4

\* encode, println, free(enc_buf), esp_camera_fb_return(fb)
capture_02_send(held, buf) ==
    LET cap == capture_02_enc_len(Len(buf)) + 1
        e   == encode_base64(buf)
    IN  Run(held - 1, <<B64(e.text, TRUE)>>, "sent",
            <<EncCall("enc_buf", cap, Len(buf), e)>>)

loop_capture_02(held, fb) ==
    IF ~fb.ok THEN capture_02_failed(held)
    ELSE capture_02_send(held + 1, fb.buf)

-----------------------------------------------------------------------------
(* esp32_cam_image_serial: loop() *)

\* if (!res) { Serial.println("ERROR: ..."); return; }
serial_convert_failed(held) ==
    Run(held, <<Diag("ERROR: Could not convert image to JPEG format")>>,
        "jpg_fail", <<>>)

\* enc_len = (jpg_len + 2) / 3 * 4
serial_enc_len(len) == ((len + 2) \div 3) * 4

\* encode, println, esp_camera_fb_return(fb), free(jpg_buf), free(enc_buf)
serial_send(held, buf) ==
    LET cap == serial_enc_len(Len(buf)) + 1
        e   == encode_base64(buf)
    IN  Run(held - 1, <<B64(e.text, TRUE)>>, "sent",
            <<EncCall("enc_buf", cap, Len(buf), e)>>)

\* (variant that goes on to send without a frame)
serial_capture_failed_sends(held) == serial_send(held + 1, <<>>)
\* if(!fb) { Serial.println("Camera capture failed"); return; }
serial_capture_failed(held) ==
    Run(held, <<Diag("Camera capture failed")>>, "acq_fail", <<>>)

\* (variant that does not test res)
serial_after_capture_nocheck(held, jpg) == serial_send(held, jpg.buf)
\* the tail of loop() once the frame is held: fmt2jpg, then the rest
serial_after_capture(held, jpg) ==
    IF ~jpg.ok THEN serial_convert_failed(held)
    ELSE serial_send(held, jpg.buf)

loop_esp32_cam_image_serial(held, fb, jpg) ==
    IF ~fb.ok THEN serial_capture_failed(held)
    ELSE serial_after_capture(held + 1, jpg)

-----------------------------------------------------------------------------
(* nano33_tinyml_kit_image_serial: loop() *)

cam_width == 160
cam_height == 120
cam_bytes_per_pixel == 2
crop_width == 64
crop_height == 64
rgb888_bytes_per_pixel == 3

\* the arguments loop() gives eiml_crop_center in a build with sizes c
CropArgs(c) ==
    [in_width |-> c.cam_width, in_height |-> c.cam_height,
     out_width |-> c.crop_width, out_height |-> c.crop_height,
     bytes_per_pixel |-> cam_bytes_per_pixel]

\* c888_img_bytes = crop_width * crop_height * rgb888_bytes_per_pixel
c888_img_bytes(c) == c.crop_width * c.crop_height * rgb888_bytes_per_pixel

\* enc_len = (c888_img_bytes + 2) / 3 * 4
nano33_enc_len(c) == ((c888_img_bytes(c) + 2) \div 3) * 4

\* unsigned char enc_header[(EIML_HEADER_SIZE + 2) / 3 * 4]
enc_header_size == ((EIML_HEADER_SIZE + 2) \div 3) * 4

\* header.format = EIML_RGB888; header.width = crop_width; header.height = crop_height
nano33_header(c) ==
    [format |-> EIML_RGB888, width |-> c.crop_width, height |-> c.crop_height]

\* enc_header, enc_buf and the other locals of loop() share its stack frame.
\* Where a byte stored past the end of enc_header lands is the compiler's
\* choice: in stack space nothing else uses, or in the enc_buf pointer, which
\* then no longer points at the encoded image
Spills == {"unused", "enc_buf"}

\* Serial.print((char*)enc_header); Serial.println((char*)enc_buf);
nano33_print(eh, e, overflow, spill) ==
    <<B64(eh.text, FALSE),
      IF overflow /\ spill = "enc_buf" THEN Garbage(TRUE) ELSE B64(e.text, TRUE)>>

\* loop() from the base64 conversion of the image on
nano33_send(c, rgb, spill) ==
    LET cap  == nano33_enc_len(c) + 1
        e    == encode_base64(AsSeq(rgb))
        hb   == eiml_generate_header(nano33_header(c), Filled(EIML_HEADER_SIZE, 0))
        eh   == encode_base64(AsSeq(hb.out))
        encs == <<EncCall("enc_buf", cap, c888_img_bytes(c), e)>>
    IN  IF hb.ret # EIML_OK
        THEN Run(0, <<Diag("Error generating header")>>, "header_fail", encs)
        ELSE Run(0, nano33_print(eh, e, eh.stored > enc_header_size, spill), "sent",
                 encs \o <<EncCall("enc_header", enc_header_size,
                                   EIML_HEADER_SIZE, eh)>>)

\* if (eiml_ret != EIML_OK) { Serial.println("Image cropping error"); return; }
nano33_crop_failed(c, rgb, spill) ==
    Run(0, <<Diag("Image cropping error")>>, "crop_fail", <<>>)

\* loop(): the images after the run, and what the run leaves behind
loop_nano33(c, frame, crop0, rgb0, spill) ==
    LET cr == eiml_crop_center(frame, crop0, CropArgs(c))
        cv == eiml_rgb565_to_rgb888(cr.out, rgb0, c.crop_width * c.crop_height)
    IN  IF cr.ret # EIML_OK
        THEN [cam |-> frame, crop |-> cr.out, rgb |-> rgb0,
              run |-> nano33_crop_failed(c, rgb0, spill)]
        ELSE IF cv.ret # EIML_OK
        THEN [cam |-> frame, crop |-> cr.out, rgb |-> cv.out,
              run |-> Run(0, <<Diag("Image conversion error")>>, "conv_fail", <<>>)]
        ELSE [cam |-> frame, crop |-> cr.out, rgb |-> cv.out,
              run |-> nano33_send(c, cv.out, spill)]

-----------------------------------------------------------------------------
(* The calls and the sketches as state machines *)

NoArgs == [in_width |-> 0, in_height |-> 0, out_width |-> 0, out_height |-> 0,
           bytes_per_pixel |-> 0]
NoHeader == [format |-> 0, width |-> 0, height |-> 0]
NoCfg == [cam_width |-> 0, cam_height |-> 0, crop_width |-> 0, crop_height |-> 0]
NoEnv == [ran |-> FALSE, fb_ok |-> TRUE, jpg_ok |-> TRUE, held0 |-> 0]

IdleCrop ==
    /\ c_args = NoArgs /\ c_in = Filled(0, 0) /\ c_out = Filled(0, 0)
    /\ c_out0 = Filled(0, 0) /\ c_called = FALSE /\ c_ret = EIML_OK
    /\ c_reads = {} /\ c_writes = {}

IdleConv ==
    /\ v_in = Filled(0, 0) /\ v_out = Filled(0, 0) /\ v_num = 0
    /\ v_called = FALSE /\ v_ret = EIML_OK

IdleHdr ==
    /\ h_header = NoHeader /\ h_out = Filled(0, 0) /\ h_called = FALSE
    /\ h_ret = EIML_OK /\ h_writes = {} /\ char_signed = FALSE

IdleSketch ==
    /\ sketch = "none" /\ cfg = NoCfg /\ cam_img = Filled(0, 0)
    /\ crop_img = Filled(0, 0) /\ rgb888_img = Filled(0, 0) /\ fbHeld = 0
    /\ tx = <<>> /\ outcome = "none" /\ encCalls = <<>> /\ env = NoEnv

(* -- eiml_crop_center, called once on each input -- *)

InitCrop ==
    /\ c_args \in [in_width : 1..MaxDim, in_height : 1..MaxDim,
                   out_width : 0..(MaxDim + 1), out_height : 0..(MaxDim + 1),
                   bytes_per_pixel : 1..MaxBpp]
    /\ \E seed \in Seeds :
          c_in = Pattern(c_args.in_width * c_args.in_height * c_args.bytes_per_pixel,
                         seed)
    /\ c_out = Filled(c_args.out_width * c_args.out_height * c_args.bytes_per_pixel,
                      170)
    /\ c_out0 = c_out
    /\ c_called = FALSE /\ c_ret = EIML_OK /\ c_reads = {} /\ c_writes = {}
    /\ IdleConv /\ IdleHdr /\ IdleSketch

CropCall ==
    /\ ~c_called
    /\ LET r == eiml_crop_center(c_in, c_out, c_args)
       IN  /\ c_out' = r.out
           /\ c_ret' = r.ret
           /\ c_reads' = r.reads
           /\ c_writes' = r.writes
    /\ c_called' = TRUE
    /\ UNCHANGED <<c_args, c_in, c_out0, convVars, hdrVars, sketchVars>>

SpecCrop == InitCrop /\ [][CropCall]_vars

(* -- eiml_rgb565_to_rgb888, called once on each input -- *)

SampleBytes == {0, 31, 224, 255}

InitConv ==
    /\ v_num \in 1..MaxPixels
    /\ v_in \in [0..(2 * v_num - 1) -> IF v_num = 1 THEN Byte ELSE SampleBytes]
    /\ v_out = Filled(3 * v_num, 170)
    /\ v_called = FALSE /\ v_ret = EIML_OK
    /\ IdleCrop /\ IdleHdr /\ IdleSketch

ConvCall ==
    /\ ~v_called
    /\ LET r == eiml_rgb565_to_rgb888(v_in, v_out, v_num)
       IN  v_out' = r.out /\ v_ret' = r.ret
    /\ v_called' = TRUE
    /\ UNCHANGED <<v_in, v_num, cropVars, hdrVars, sketchVars>>

SpecConv == InitConv /\ [][ConvCall]_vars

(* -- eiml_generate_header, called once on each input -- *)

\* widths and heights tried: small ones, and ones with every byte in use, up to
\* 0x7FFFFFFF
HeaderDims == (0..MaxSmall) \cup {64, 255, 256, 65535, 65536, 16909060, 2147483647}

InitHdr ==
    /\ h_header \in [format : Byte, width : HeaderDims, height : HeaderDims]
    /\ h_out = Filled(EIML_HEADER_SIZE, 170)
    /\ h_called = FALSE /\ h_ret = EIML_OK /\ h_writes = {}
    /\ char_signed \in BOOLEAN
    /\ IdleCrop /\ IdleConv /\ IdleSketch

HeaderCall ==
    /\ ~h_called
    /\ LET r == eiml_generate_header(h_header, h_out)
       IN  h_out' = r.out /\ h_ret' = r.ret /\ h_writes' = r.writes
    /\ h_called' = TRUE
    /\ UNCHANGED <<h_header, char_signed, cropVars, convVars, sketchVars>>

SpecHeader == InitHdr /\ [][HeaderCall]_vars

(* -- the three sketches: each step is one run of loop() -- *)

Sketches == {"esp32_cam_image_capture_02", "esp32_cam_image_serial",
             "nano33_tinyml_kit_image_serial"}

\* the builds of the nano33 sketch that are tried: its sizes, scaled down
Builds == [cam_width : 1..MaxCam, cam_height : 1..MaxCam,
           crop_width : 1..(MaxCam + 1), crop_height : 1..(MaxCam + 1)]

NoFb == [ok |-> FALSE, buf |-> <<>>]
\* byte buffers the camera driver or fmt2jpg may hand back
ByteBufs == {AsSeq(Pattern(n, seed)) : n \in 1..MaxLen, seed \in Seeds}

\* esp_camera_fb_get(): NULL, or a frame while the driver has one left
FbResults(held, bufs) ==
    {NoFb} \cup (IF held < fb_count THEN {[ok |-> TRUE, buf |-> b] : b \in bufs}
                 ELSE {})

\* fmt2jpg(): failure with no buffer, or a JPEG buffer
JpgResults == {NoFb} \cup {[ok |-> TRUE, buf |-> b] : b \in ByteBufs}

InitSketch ==
    /\ sketch \in Sketches
    /\ cfg \in (IF sketch = "nano33_tinyml_kit_image_serial" THEN Builds ELSE {NoCfg})
    /\ cam_img = Filled(cfg.cam_width * cfg.cam_height * cam_bytes_per_pixel, 0)
    /\ crop_img = Filled(cfg.crop_width * cfg.crop_height * cam_bytes_per_pixel, 0)
    /\ rgb888_img = Filled(cfg.crop_width * cfg.crop_height * rgb888_bytes_per_pixel, 0)
    /\ fbHeld = 0 /\ tx = <<>> /\ outcome = "none" /\ encCalls = <<>>
    /\ env = NoEnv
    /\ IdleCrop /\ IdleConv /\ IdleHdr

Ran(r) ==
    /\ fbHeld' = r.held
    /\ tx' = r.tx
    /\ outcome' = r.outcome
    /\ encCalls' = r.enc

Loop_capture_02 ==
    /\ sketch = "esp32_cam_image_capture_02"
    /\ \E fb \in FbResults(fbHeld, ByteBufs) :
          /\ Ran(loop_capture_02(fbHeld, fb))
          /\ env' = [ran |-> TRUE, fb_ok |-> fb.ok, jpg_ok |-> TRUE, held0 |-> fbHeld]
    /\ UNCHANGED <<sketch, cfg, cam_img, crop_img, rgb888_img,
                   cropVars, convVars, hdrVars>>

Loop_image_serial ==
    /\ sketch = "esp32_cam_image_serial"
    /\ \E fb \in FbResults(fbHeld, {<<>>}), jpg \in JpgResults :
          /\ Ran(loop_esp32_cam_image_serial(fbHeld, fb, jpg))
          /\ env' = [ran |-> TRUE, fb_ok |-> fb.ok, jpg_ok |-> (fb.ok => jpg.ok),
                     held0 |-> fbHeld]
    /\ UNCHANGED <<sketch, cfg, cam_img, crop_img, rgb888_img,
                   cropVars, convVars, hdrVars>>

Loop_nano33 ==
    /\ sketch = "nano33_tinyml_kit_image_serial"
    /\ \E seed \in Seeds, spill \in Spills :
          LET frame == Pattern(cfg.cam_width * cfg.cam_height * cam_bytes_per_pixel,
                               seed)
              r == loop_nano33(cfg, frame, crop_img, rgb888_img, spill)
          IN  /\ cam_img' = r.cam
              /\ crop_img' = r.crop
              /\ rgb888_img' = r.rgb
              /\ Ran(r.run)
    /\ env' = [ran |-> TRUE, fb_ok |-> TRUE, jpg_ok |-> TRUE, held0 |-> fbHeld]
    /\ UNCHANGED <<sketch, cfg, cropVars, convVars, hdrVars>>

SketchNext == Loop_capture_02 \/ Loop_image_serial \/ Loop_nano33

SpecSketch == InitSketch /\ [][SketchNext]_vars

-----------------------------------------------------------------------------
(* Properties *)

CropFits == c_args.in_width >= c_args.out_width /\ c_args.in_height >= c_args.out_height
CropOutLen == c_args.out_width * c_args.out_height * c_args.bytes_per_pixel
CropInLen == c_args.in_width * c_args.in_height * c_args.bytes_per_pixel

\* C1: a crop that fits returns EIML_OK, writes exactly the
\* out_width*out_height*bytes_per_pixel bytes of out_pixels, and byte b of output
\* pixel (x, y) is byte b of input pixel (x + (in_width-out_width) div 2,
\* y + (in_height-out_height) div 2), the division rounding down.
C1_CropCopiesCentre ==
    (c_called /\ CropFits) =>
        /\ c_ret = EIML_OK
        /\ c_writes = 0..(CropOutLen - 1)
        /\ \A y \in 0..(c_args.out_height - 1), x \in 0..(c_args.out_width - 1),
              b \in 0..(c_args.bytes_per_pixel - 1) :
              c_out[(y * c_args.out_width + x) * c_args.bytes_per_pixel + b]
                = c_in[((y + (c_args.in_height - c_args.out_height) \div 2)
                          * c_args.in_width
                        + (x + (c_args.in_width - c_args.out_width) \div 2))
                       * c_args.bytes_per_pixel + b]

\* a crop with odd size differences in both axes has copied pixels
C1_Witness ==
    /\ c_called /\ c_ret = EIML_OK
    /\ c_args.in_width - c_args.out_width = 1
    /\ c_args.in_height - c_args.out_height = 1
    /\ c_args.out_width >= 2 /\ c_args.out_height >= 2
    /\ c_args.bytes_per_pixel >= 2
    /\ c_out # c_out0

\* C2: a crop larger than the input in width or in height returns EIML_ERROR
\* and leaves every byte of out_pixels as it was.
C2_CropTooLargeWritesNothing ==
    (c_called /\ ~CropFits) =>
        /\ c_ret = EIML_ERROR
        /\ c_out = c_out0
        /\ c_writes = {}

\* a crop too tall (but not too wide) for its input was refused
C2_Witness ==
    /\ c_called /\ c_ret = EIML_ERROR
    /\ c_args.out_height > c_args.in_height
    /\ c_args.out_width <= c_args.in_width /\ c_args.out_width >= 1
    /\ c_out = Filled(CropOutLen, 170)

\* C3: every pixel (hi, lo) becomes red = hi with its low 3 bits cleared,
\* green = the low 3 bits of hi as bits 7..5 and the top 3 bits of lo as bits
\* 4..2, blue = the low 5 bits of lo as bits 7..3; 0xFF,0xFF becomes
\* (0xF8, 0xFC, 0xF8); output pixel i is decided by input pixel i alone.
C3_Rgb565ToRgb888BitExact ==
    v_called =>
        /\ v_ret = EIML_OK
        /\ \A i \in 0..(v_num - 1) :
              LET hi == v_in[2 * i]
                  lo == v_in[2 * i + 1]
              IN  /\ v_out[3 * i] = hi - (hi % 8)
                  /\ v_out[3 * i + 1] = (hi % 8) * 32 + (lo \div 32) * 4
                  /\ v_out[3 * i + 2] = (lo % 32) * 8
                  /\ (hi = 255 /\ lo = 255) =>
                        /\ v_out[3 * i] = 248
                        /\ v_out[3 * i + 1] = 252
                        /\ v_out[3 * i + 2] = 248

\* the white pixel has been converted, after another pixel
C3_Witness ==
    /\ v_called /\ v_num = 2
    /\ v_in[0] = 31 /\ v_in[1] = 224
    /\ v_in[2] = 255 /\ v_in[3] = 255
    /\ v_out[3] = 248 /\ v_out[4] = 252 /\ v_out[5] = 248

LittleEndian(buf, at) ==
    buf[at] + 256 * buf[at + 1] + 65536 * buf[at + 2] + 16777216 * buf[at + 3]

\* C4: the header call returns EIML_OK and writes exactly 12 bytes: FF A0 FF,
\* the format, the width least significant byte first, then the height least
\* significant byte first; format 1, 64 x 64 gives
\* FF A0 FF 01 40 00 00 00 40 00 00 00.
C4_HeaderLayout ==
    h_called =>
        /\ h_ret = EIML_OK
        /\ h_writes = 0..11
        /\ DOMAIN h_out = 0..11
        /\ \A j \in 0..11 : h_out[j] \in Byte
        /\ h_out[0] = 255 /\ h_out[1] = 160 /\ h_out[2] = 255
        /\ h_out[3] = h_header.format
        /\ LittleEndian(h_out, 4) = h_header.width
        /\ LittleEndian(h_out, 8) = h_header.height
        /\ (h_header.format = 1 /\ h_header.width = 64 /\ h_header.height = 64) =>
              AsSeq(h_out) = <<255, 160, 255, 1, 64, 0, 0, 0, 64, 0, 0, 0>>

\* the header of a width with four different bytes has been generated where
\* plain char is signed
C4_Witness ==
    /\ h_called /\ char_signed
    /\ h_header.width = 16909060 /\ h_header.height = 64 /\ h_header.format = 1
    /\ h_out[4] = 4 /\ h_out[5] = 3 /\ h_out[6] = 2 /\ h_out[7] = 1

\* C5: the sketch holds no driver frame buffer when a run of loop() starts,
\* whatever path the runs before it took.
C5_FrameBufferReleased == fbHeld = 0

\* a step of the last run of loop() failed: no frame, no JPEG, or a crop larger
\* than the camera image
StepFailed ==
    /\ env.ran
    /\ \/ ~env.fb_ok
       \/ ~env.jpg_ok
       \/ /\ sketch = "nano33_tinyml_kit_image_serial"
          /\ (cfg.crop_width > cfg.cam_width \/ cfg.crop_height > cfg.cam_height)

\* C6: a run of loop() in which a step failed executed no later step: it
\* encoded nothing, wrote no header and no image text to Serial (only the
\* diagnostic line), and loop() can run again.
C6_FailureEndsTheRun ==
    StepFailed =>
        /\ encCalls = <<>>
        /\ Len(tx) = 1
        /\ tx[1].kind = "diag"
        /\ ENABLED SketchNext

\* fmt2jpg failed in a run of the esp32_cam_image_serial sketch
C6_Witness ==
    /\ sketch = "esp32_cam_image_serial"
    /\ env.ran /\ env.fb_ok /\ ~env.jpg_ok
    /\ tx = <<Diag("ERROR: Could not convert image to JPEG format")>>

\* C7 as stated: a run of loop() whose frame acquisition failed wrote nothing
\* at all to Serial.
C7_NothingWrittenOnAcquisitionFailure ==
    (env.ran /\ ~env.fb_ok) => tx = <<>>

\* C7 as amended: a run of loop() whose frame acquisition failed wrote the
\* line "Camera capture failed" to Serial and nothing else, encoded nothing,
\* holds the frame buffers it held before, and loop() can run again.
C7_OnlyDiagnosticOnAcquisitionFailure ==
    (env.ran /\ ~env.fb_ok) =>
        /\ tx = <<Diag("Camera capture failed")>>
        /\ encCalls = <<>>
        /\ fbHeld = env.held0
        /\ ENABLED SketchNext

\* the camera gave no frame while the sketch held none
C7_Witness ==
    /\ env.ran /\ ~env.fb_ok /\ env.held0 = 0
    /\ outcome = "acq_fail"

\* C8: every encode_base64 call of a run stored no more bytes (the
\* (n+2)/3*4 characters and the terminating null) than its output buffer has.
C8_EncodeFitsItsBuffer ==
    \A i \in DOMAIN encCalls :
        /\ encCalls[i].stored = ((encCalls[i].n + 2) \div 3) * 4 + 1
        /\ encCalls[i].stored <= encCalls[i].cap

\* the header of a build whose images are crop_width x crop_height
ExpectedHeader(c) ==
    <<255, 160, 255, 1,
      c.crop_width % 256, (c.crop_width \div 256) % 256,
      (c.crop_width \div 65536) % 256, (c.crop_width \div 16777216) % 256,
      c.crop_height % 256, (c.crop_height \div 256) % 256,
      (c.crop_height \div 65536) % 256, (c.crop_height \div 16777216) % 256>>

SketchSizes ==
    [cam_width |-> cam_width, cam_height |-> cam_height,
     crop_width |-> crop_width, crop_height |-> crop_height]

\* with the sketch's sizes, every index the crop uses is inside cam_img and
\* crop_img
SketchCropInBounds ==
    LET a == CropArgs(SketchSizes)
    IN  \A y \in 0..(a.out_height - 1), x \in 0..(a.out_width - 1),
           b \in 0..(a.bytes_per_pixel - 1) :
           /\ crop_in_index(a, y, x, b)
                \in 0..(cam_width * cam_height * cam_bytes_per_pixel - 1)
           /\ crop_out_index(a, y, x, b)
                \in 0..(crop_width * crop_height * cam_bytes_per_pixel - 1)

\* with the sketch's sizes, every index the conversion uses is inside crop_img
\* and rgb888_img
SketchConvInBounds ==
    \A i \in 0..(crop_width * crop_height - 1) :
        /\ \A k \in 0..1 :
              conv_in_index(i, k)
                \in 0..(crop_width * crop_height * cam_bytes_per_pixel - 1)
        /\ \A k \in 0..2 :
              conv_out_index(i, k)
                \in 0..(crop_width * crop_height * rgb888_bytes_per_pixel - 1)

\* C10: a crop that fits reads only indexes inside in_pixels and writes only
\* indexes inside out_pixels; with the sketch's 160x120 input, 64x64 crop and
\* 2 bytes per pixel the crop and the conversion after it stay inside cam_img,
\* crop_img and rgb888_img.
C10_CropStaysInBounds ==
    /\ (c_called /\ CropFits) =>
          /\ \A i \in c_reads : i \in 0..(CropInLen - 1)
          /\ \A i \in c_writes : i \in 0..(CropOutLen - 1)
    /\ SketchCropInBounds
    /\ SketchConvInBounds

\* a crop narrower than its input has read the last byte of in_pixels' last
\* cropped row and written the last byte of out_pixels
C10_Witness ==
    /\ c_called /\ c_ret = EIML_OK
    /\ c_args.in_width > c_args.out_width
    /\ c_args.in_height = c_args.out_height
    /\ c_args.out_width >= 1
    /\ (CropOutLen - 1) \in c_writes
    /\ c_reads # {}

=============================================================================
